---- MODULE Spec2Model ----
(***************************************************************************)
(* eclean-kernel: the standard /boot layout scanner                        *)
(* (ecleankernel/layout/std.py, StdLayout.find_kernels) and the kernel     *)
(* image version reader (ecleankernel/file.py, KernelImage).               *)
(*                                                                         *)
(* Strings are modelled as sequences: a path or a version key is a         *)
(* sequence of tokens (<<"/boot", "/vmlinuz-", "A", ".old">> is            *)
(* /boot/vmlinuz-A.old), so that slicing (m[len(g):]), endswith() and      *)
(* concatenation are computed as the code computes them.  Image files are  *)
(* sequences of bytes 0..255.                                              *)
(***************************************************************************)
EXTENDS Integers, Sequences, FiniteSets, TLC

VARIABLES
    \* ---- find_kernels: arguments and the filesystem it reads
    exclusions, boot_directory, module_directory, fs,
    \* ---- find_kernels: locals
    pc, gi, todo, m, prev_paths, kernels, fi, err,
    \* ---- KernelImage.read_internal_version: the open file and locals
    img, file, fpos, ppc, NumberOfSections, SizeOfOptionalHeader,
    PointerToRawData, si, header, mi, b, result

scanVars == <<exclusions, boot_directory, module_directory, fs,
              pc, gi, todo, m, prev_paths, kernels, fi, err>>
parseVars == <<img, file, fpos, ppc, NumberOfSections, SizeOfOptionalHeader,
               PointerToRawData, si, header, mi, b, result>>
vars == <<scanVars, parseVars>>

None == [ftype |-> "None"]

NoError == [type |-> "None"]

(***************************************************************************)
(* Bounds of the explored inputs                                           *)
(***************************************************************************)
MaxBootFiles == 3

(***************************************************************************)
(* KernelFileType values (file.py 15-24) used as slot names                *)
(***************************************************************************)
KERNEL == "vmlinuz"
SYSTEM_MAP == "systemmap"
CONFIG == "config"
INITRAMFS == "initramfs"
MODULES == "modules"
BUILD == "build"

Roles == {KERNEL, SYSTEM_MAP, CONFIG, INITRAMFS, MODULES, BUILD}

GenericFile(path, ftype) == [path |-> path, ftype |-> ftype]

KernelImage(path, ver) ==
    [path |-> path, ftype |-> KERNEL, internal_version |-> ver]

(***************************************************************************)
(* String helpers on token sequences                                       *)
(***************************************************************************)
EndsWith(s, suf) ==
    /\ Len(s) >= Len(suf)
    /\ SubSeq(s, Len(s) - Len(suf) + 1, Len(s)) = suf

StartsWith(s, pre) ==
    /\ Len(s) >= Len(pre)
    /\ SubSeq(s, 1, Len(pre)) = pre

\* '%s.old' % kv
OldKey(kv) == kv \o <<".old">>

\* os.path.join(a, 'build')
BuildDirOf(dir) == dir \o <<"/build">>

\* os.path.join('/lib/modules', realkv)
ModuleDirOf(realkv) == <<"/lib/modules", "/">> \o realkv

(***************************************************************************)
(* The filesystem find_kernels reads: fs.files are the entries of the boot *)
(* directory, fs.ver the version each image file reports (None when        *)
(* KernelImage() raises), fs.dirs maps every path spelling of a module     *)
(* tree to the directory (device+inode) it resolves to, fs.build are the   *)
(* directories holding a 'build' entry that is a directory.                *)
(***************************************************************************)
IsDir(p) ==
    \/ p \in DOMAIN fs.dirs
    \/ /\ Len(p) > 1
       /\ p[Len(p)] = "/build"
       /\ SubSeq(p, 1, Len(p) - 1) \in DOMAIN fs.dirs
       /\ fs.dirs[SubSeq(p, 1, Len(p) - 1)] \in fs.build

\* os.stat(p): (st_dev, st_ino)
Inode(p) ==
    IF p \in DOMAIN fs.dirs THEN <<"dir", fs.dirs[p]>>
    ELSE IF IsDir(p) THEN <<"build", fs.dirs[SubSeq(p, 1, Len(p) - 1)]>>
    ELSE <<"file">> \o p

SameFile_byName(x, p) == x = p

SameFile_never(x, p) == FALSE

\* os.path.samefile(x, m)
SameFile(x, p) == Inode(x) = Inode(p)

\* glob('%s*' % g): the directory entries whose name starts with the prefix
Glob(g) ==
    {p \in fs.files \cup DOMAIN fs.dirs : Len(p) > Len(g) /\ StartsWith(p, g)}

(***************************************************************************)
(* globs (std.py 37-47)                                                    *)
(***************************************************************************)
globs ==
    << [cat |-> KERNEL,     g |-> <<boot_directory, "/vmlinuz-">>],
       [cat |-> KERNEL,     g |-> <<boot_directory, "/vmlinux-">>],
       [cat |-> KERNEL,     g |-> <<boot_directory, "/kernel-">>],
       [cat |-> KERNEL,     g |-> <<boot_directory, "/bzImage-">>],
       [cat |-> SYSTEM_MAP, g |-> <<boot_directory, "/System.map-">>],
       [cat |-> CONFIG,     g |-> <<boot_directory, "/config-">>],
       [cat |-> INITRAMFS,  g |-> <<boot_directory, "/initramfs-">>],
       [cat |-> INITRAMFS,  g |-> <<boot_directory, "/initrd-">>],
       [cat |-> MODULES,    g |-> <<module_directory, "/">>] >>

\* kv = m[len(g):], with the initramfs suffixes rewritten (std.py 56-61)
VersionKey(cat, g, p) ==
    LET kv == SubSeq(p, Len(g) + 1, Len(p)) IN
    IF cat = INITRAMFS
    THEN IF EndsWith(kv, <<".img">>)
         THEN SubSeq(kv, 1, Len(kv) - 1)
         ELSE IF EndsWith(kv, <<".img", ".old">>)
              THEN SubSeq(kv, 1, Len(kv) - 2) \o <<".old">>
              ELSE kv
    ELSE kv

(***************************************************************************)
(* ecleankernel.kernel.Kernel: the aggregate with one write-once slot per  *)
(* role.  kernels is the dict of find_kernels in insertion order.          *)
(***************************************************************************)
Kernel(kv) ==
    [version |-> kv, vmlinuz |-> None, systemmap |-> None, config |-> None,
     initramfs |-> None, modules |-> None, build |-> None]

\* setattr(k, name, value): KeyError when the slot already holds a file
Kernel_setattr(k, name, value) ==
    IF k[name] # None
    THEN [ok |-> FALSE, k |-> k]
    ELSE [ok |-> TRUE, k |-> [k EXCEPT ![name] = value]]

Has(ks, kv) == \E i \in 1..Len(ks) : ks[i].version = kv

Index(ks, kv) == CHOOSE i \in 1..Len(ks) : ks[i].version = kv

Get(ks, kv) == ks[Index(ks, kv)]

\* kernels.setdefault(kv, Kernel(kv))
SetDefault(ks, kv) == IF Has(ks, kv) THEN ks ELSE Append(ks, Kernel(kv))

\* kernels[kv].<name> = value, outside any try block: KeyError propagates
Assign(st, kv, name, value) ==
    IF st.err # NoError THEN st
    ELSE LET i == Index(st.kernels, kv)
             r == Kernel_setattr(st.kernels[i], name, value)
         IN IF r.ok
            THEN [st EXCEPT !.kernels[i] = r.k]
            ELSE [st EXCEPT !.err = [type |-> "KeyError", cat |-> name,
                                     new |-> value.path,
                                     old |-> st.kernels[i][name].path]]

AssignMatched_overwrite(st, kv, cat, file_obj) ==
    LET ks == SetDefault(st.kernels, kv)
        i == Index(ks, kv)
    IN [st EXCEPT !.kernels = [ks EXCEPT ![i][cat] = file_obj]]

\* newk = kernels.setdefault(kv, Kernel(kv)); try: setattr(newk, cat.value,
\* file_obj) except KeyError: raise SystemError(...)   (std.py 73-80)
AssignMatched(st, kv, cat, file_obj) ==
    LET ks == SetDefault(st.kernels, kv)
        i == Index(ks, kv)
        r == Kernel_setattr(ks[i], cat, file_obj)
    IN IF r.ok
       THEN [st EXCEPT !.kernels = [ks EXCEPT ![i] = r.k]]
       ELSE [st EXCEPT !.kernels = ks,
                       !.err = [type |-> "SystemError", cat |-> cat,
                                new |-> file_obj.path,
                                old |-> ks[i][cat].path]]

\* prev_paths.add(p), unless an exception is already propagating
AddPath(st, p) ==
    IF st.err # NoError THEN st
    ELSE [st EXCEPT !.prev_paths = @ \cup {p}]

\* the MODULES branch after the slot is filled (std.py 82-91)
ModulesExtras(st, kv, p) ==
    LET builddir == BuildDirOf(p)
        s1 == IF IsDir(builddir)
              THEN Assign(st, kv, BUILD, GenericFile(builddir, BUILD))
              ELSE st
        newk == Get(s1.kernels, kv)
        hasOld == Has(s1.kernels, OldKey(kv))
        s2 == IF hasOld
              THEN Assign(s1, OldKey(kv), MODULES, newk.modules)
              ELSE s1
        s3 == IF hasOld /\ newk.build # None
              THEN Assign(s2, OldKey(kv), BUILD, newk.build)
              ELSE s2
    IN s3

\* the KERNEL branch after the slot is filled (std.py 92-106)
KernelExtras(st, kv, file_obj) ==
    LET realkv == file_obj.internal_version
        moduledir == ModuleDirOf(realkv)
        builddir == BuildDirOf(moduledir)
        s1 == IF MODULES \notin exclusions /\ IsDir(moduledir)
              THEN AddPath(Assign(st, kv, MODULES,
                                  GenericFile(moduledir, MODULES)), moduledir)
              ELSE st
        s2 == IF BUILD \notin exclusions /\ IsDir(builddir)
              THEN AddPath(Assign(s1, kv, BUILD,
                                  GenericFile(builddir, BUILD)), builddir)
              ELSE s1
    IN s2

FillFrom_mapOnly(k, oldk) ==
    IF oldk.systemmap = None /\ k.systemmap # None
    THEN [oldk EXCEPT !.systemmap = k.systemmap]
    ELSE oldk

\* one iteration of the '.old' merge loop on the pair (k, oldk) (std.py 113-116)
FillFrom(k, oldk) ==
    LET o1 == IF oldk.systemmap = None /\ k.systemmap # None
              THEN [oldk EXCEPT !.systemmap = k.systemmap]
              ELSE oldk
        o2 == IF o1.config = None /\ k.config # None
              THEN [o1 EXCEPT !.config = k.config]
              ELSE o1
    IN o2

(***************************************************************************)
(* Inputs of find_kernels                                                  *)
(***************************************************************************)
VA == <<"A">>

\* image files of the boot directory and what KernelImage() reads from them
ImageVersion ==
    [p \in { <<"/boot", "/vmlinuz-", "A">>,
             <<"/boot", "/vmlinuz-", "A", ".old">>,
             <<"/boot", "/kernel-", "A">>,
             <<"/boot", "/vmlinux-", "B">> } |->
        IF p[3] = "A" THEN VA ELSE <<>>]

BootCandidates ==
    DOMAIN ImageVersion \cup
    { <<"/boot", "/System.map-", "A">>,
      <<"/boot", "/config-", "A">>,
      <<"/boot", "/initramfs-", "A", ".img">>,
      <<"/boot", "/initrd-", "A">>,
      <<"/boot", "/initramfs-", "A", ".old", ".img", ".old">> }

ModuleDirChoices == {"/lib/modules", "/mnt/modules"}

ExclusionChoices == {{}, {BUILD}, {MODULES}, {KERNEL}}

Inodes == {"d1", "d2"}

TreeSpellings(md) ==
    { <<md, "/", "A">>, <<md, "/", "A", ".old">>, <<"/lib/modules", "/", "A">> }

Range(f) == {f[x] : x \in DOMAIN f}

ScanInit ==
    /\ boot_directory = "/boot"
    /\ module_directory \in ModuleDirChoices
    /\ exclusions \in ExclusionChoices
    /\ \E files \in SUBSET BootCandidates :
       \E S \in SUBSET TreeSpellings(module_directory) :
       \E dirs \in [S -> Inodes] :
       \E build \in SUBSET Range(dirs) :
          /\ Cardinality(files) <= MaxBootFiles
          /\ ("d2" \in Range(dirs) => "d1" \in Range(dirs))
          /\ fs = [files |-> files,
                   ver |-> [p \in files \cap DOMAIN ImageVersion |->
                               ImageVersion[p]],
                   dirs |-> dirs,
                   build |-> build]
    /\ pc = "glob"
    /\ gi = 0
    /\ todo = {}
    /\ m = <<>>
    /\ prev_paths = {}
    /\ kernels = <<>>
    /\ fi = 0
    /\ err = NoError

ParseIdle ==
    /\ img = <<>> /\ file = <<>> /\ fpos = 0 /\ ppc = "idle"
    /\ NumberOfSections = 0 /\ SizeOfOptionalHeader = 0
    /\ PointerToRawData = 0 /\ si = 0 /\ header = <<>> /\ mi = 0
    /\ b = <<>> /\ result = NoError

Init == ScanInit /\ ParseIdle

(***************************************************************************)
(* find_kernels, one action per loop step                                  *)
(***************************************************************************)
cat == globs[gi].cat

\* the end of one iteration of 'for m in glob(...)': the locals it leaves
Commit(p, st) ==
    /\ m' = p
    /\ todo' = todo \ {p}
    /\ kernels' = st.kernels
    /\ prev_paths' = st.prev_paths
    /\ err' = st.err
    /\ pc' = IF st.err = NoError THEN "glob" ELSE "error"
    /\ UNCHANGED <<exclusions, boot_directory, module_directory, fs, gi, fi>>
    /\ UNCHANGED parseVars

Here == [kernels |-> kernels, prev_paths |-> prev_paths, err |-> NoError]

\* for cat, g in globs: ... for m in glob('%s*' % g)   (std.py 52-55)
NextGlob ==
    /\ pc = "glob" /\ todo = {} /\ gi < Len(globs)
    /\ globs[gi + 1].cat \notin exclusions
    /\ gi' = gi + 1
    /\ todo' = Glob(globs[gi + 1].g)
    /\ UNCHANGED <<exclusions, boot_directory, module_directory, fs, pc, m,
                   prev_paths, kernels, fi, err>>
    /\ UNCHANGED parseVars

\* if cat.value in exclusions: continue   (std.py 53-54)
SkipExcluded ==
    /\ pc = "glob" /\ todo = {} /\ gi < Len(globs)
    /\ globs[gi + 1].cat \in exclusions
    /\ gi' = gi + 1
    /\ UNCHANGED <<exclusions, boot_directory, module_directory, fs, pc, todo,
                   m, prev_paths, kernels, fi, err>>
    /\ UNCHANGED parseVars

\* a module directory that is the same file as a path seen before (std.py 62-64)
SkipSameFile ==
    /\ pc = "glob"
    /\ \E p \in todo :
        /\ cat = MODULES
        /\ \E x \in prev_paths : SameFile(x, p)
        /\ Commit(p, Here)

\* a kernel image (std.py 56-80, 92-106)
MatchKernel ==
    /\ pc = "glob"
    /\ \E p \in todo :
        /\ cat = KERNEL
        /\ LET kv == VersionKey(cat, globs[gi].g, p) IN
           IF fs.ver[p] = <<>>
           THEN Commit(p, [Here EXCEPT !.err =
                    [type |-> "UnrecognizedKernelError", cat |-> cat,
                     new |-> p, old |-> <<>>]])
           ELSE LET file_obj == KernelImage(p, fs.ver[p])
                    s1 == AssignMatched(AddPath(Here, p), kv, cat, file_obj)
                IN Commit(p, IF s1.err = NoError
                             THEN KernelExtras(s1, kv, file_obj)
                             ELSE s1)

\* a module directory not seen before (std.py 56-91)
MatchModules ==
    /\ pc = "glob"
    /\ \E p \in todo :
        /\ cat = MODULES
        /\ ~ \E x \in prev_paths : SameFile(x, p)
        /\ LET kv == VersionKey(cat, globs[gi].g, p)
               s1 == AssignMatched(AddPath(Here, p), kv, cat,
                                   GenericFile(p, cat))
           IN Commit(p, IF s1.err = NoError
                        THEN ModulesExtras(s1, kv, p)
                        ELSE s1)

\* a System.map, config or initramfs file (std.py 56-80)
MatchFile ==
    /\ pc = "glob"
    /\ \E p \in todo :
        /\ cat \in {SYSTEM_MAP, CONFIG, INITRAMFS}
        /\ LET kv == VersionKey(cat, globs[gi].g, p)
           IN Commit(p, AssignMatched(AddPath(Here, p), kv, cat,
                                      GenericFile(p, cat)))

\* the glob loops are exhausted: enter 'for k in kernels.values()' (std.py 109)
EndGlobs ==
    /\ pc = "glob" /\ todo = {} /\ gi = Len(globs)
    /\ pc' = "fill"
    /\ fi' = 1
    /\ UNCHANGED <<exclusions, boot_directory, module_directory, fs, gi, todo,
                   m, prev_paths, kernels, err>>
    /\ UNCHANGED parseVars

\* one iteration of the '.old' merge loop (std.py 109-116)
FillOld ==
    /\ pc = "fill" /\ fi <= Len(kernels)
    /\ LET k == kernels[fi] IN
       kernels' = IF Has(kernels, OldKey(k.version))
                  THEN LET j == Index(kernels, OldKey(k.version))
                       IN [kernels EXCEPT ![j] = FillFrom(k, kernels[j])]
                  ELSE kernels
    /\ fi' = fi + 1
    /\ UNCHANGED <<exclusions, boot_directory, module_directory, fs, pc, gi,
                   todo, m, prev_paths, err>>
    /\ UNCHANGED parseVars

\* return list(kernels.values())   (std.py 118)
Return ==
    /\ pc = "fill" /\ fi > Len(kernels)
    /\ pc' = "done"
    /\ UNCHANGED <<exclusions, boot_directory, module_directory, fs, gi, todo,
                   m, prev_paths, kernels, fi, err>>
    /\ UNCHANGED parseVars

Next ==
    \/ NextGlob
    \/ SkipExcluded
    \/ SkipSameFile
    \/ MatchKernel
    \/ MatchModules
    \/ MatchFile
    \/ EndGlobs
    \/ FillOld
    \/ Return

Spec == Init /\ [][Next]_vars

(***************************************************************************)
(* KernelImage.read_internal_version (file.py 99-211)                      *)
(*                                                                         *)
(* file is the image as a sequence of bytes, fpos the position of the open *)
(* file object (0-based, as f.tell()).                                     *)
(***************************************************************************)
MaxSections == 3
MaxPad == 3

Min(x, y) == IF x < y THEN x ELSE y

Max(x, y) == IF x > y THEN x ELSE y

\* b'MZ'
MZ == <<77, 90>>

\* b'HdrS'
HdrS == <<72, 100, 114, 83>>

\* '.linux'
DotLinux == <<46, 108, 105, 110, 117, 120>>

\* ver_start = 'Linux version '
ver_start == <<76, 105, 110, 117, 120, 32, 118, 101, 114, 115, 105, 111, 110, 32>>

\* magic_dict, in insertion order (file.py 103-111)
magic_dict ==
    << [magic |-> <<31, 139, 8>>,                 comp |-> "gzip"],
       [magic |-> <<66, 90, 104>>,                comp |-> "bz2"],
       [magic |-> <<253, 55, 122, 88, 90, 0>>,    comp |-> "lzma"],
       [magic |-> <<93, 0, 0>>,                   comp |-> "lzma"],
       [magic |-> <<4, 34, 77, 24>>,              comp |-> "lz4.frame"],
       [magic |-> <<40, 181, 47, 253>>,           comp |-> "zstandard"],
       [magic |-> <<137, 76, 90, 79, 0, 13, 10, 26, 10>>, comp |-> "lzo"] >>

Comps == {magic_dict[i].comp : i \in 1..Len(magic_dict)}

\* maxlen = max(len(x) for x in magic_dict)
maxlen ==
    CHOOSE n \in {Len(magic_dict[i].magic) : i \in 1..Len(magic_dict)} :
       \A i \in 1..Len(magic_dict) : Len(magic_dict[i].magic) <= n

\* f.read(n) at position pos; f.read() is ReadAll
Read(pos, n) == SubSeq(file, pos + 1, Min(pos + n, Len(file)))

ReadAll(pos) == SubSeq(file, pos + 1, Len(file))

\* struct.unpack little-endian 'H' and 'I'
LE16(bs) == bs[1] + 256 * bs[2]

LE32(bs) == bs[1] + 256 * bs[2] + 65536 * bs[3] + 16777216 * bs[4]

\* hay.find(needle): the 0-based index of the first occurrence, or -1
Find(hay, needle) ==
    LET hits == {i \in 0..(Len(hay) - Len(needle)) :
                    SubSeq(hay, i + 1, i + Len(needle)) = needle}
    IN IF hits = {} THEN -1
       ELSE CHOOSE i \in hits : \A j \in hits : i <= j

\* needle in hay
Contains(hay, needle) == Find(hay, needle) # -1

\* buf.split(b' ', 1): ret[0], and whether the split found a space
SplitSpace(buf) ==
    LET i == Find(buf, <<32>>)
    IN IF i = -1 THEN [head |-> buf, found |-> FALSE]
       ELSE [head |-> SubSeq(buf, 1, i), found |-> TRUE]

\* bytes.decode(): ASCII maps to itself, anything above is not decoded here
Decodable(bs) == \A i \in 1..Len(bs) : bs[i] < 128

Ok(v) == [type |-> "ok", value |-> v]

Raise(t) == [type |-> t, value |-> <<>>]

ReturnOrDecodeError(bs) ==
    IF Decodable(bs) THEN Ok(bs) ELSE Raise("UnicodeDecodeError")

(***************************************************************************)
(* The decompressors are library code: a stream is the codec's magic       *)
(* followed by the content, each byte shifted by one; decompress() undoes  *)
(* the shift and rejects anything that does not start with a magic of the  *)
(* codec.  What a codec does with no input at all differs per library.     *)
(***************************************************************************)
Scramble(bs) == [i \in 1..Len(bs) |-> (bs[i] + 1) % 256]

Unscramble(bs) == [i \in 1..Len(bs) |-> (bs[i] + 255) % 256]

MagicsOf(comp) ==
    {magic_dict[i].magic : i \in {j \in 1..Len(magic_dict) :
                                     magic_dict[j].comp = comp}}

\* the outcomes of <comp>.decompress(data)
Decompress(comp, data) ==
    IF data = <<>>
    THEN IF comp \in {"gzip", "bz2"} THEN {Ok(<<>>)}
         ELSE IF comp = "lzma" THEN {Raise("CodecError")}
         ELSE {Ok(<<>>), Raise("CodecError")}
    ELSE IF \E mg \in MagicsOf(comp) : StartsWith(data, mg)
         THEN LET mg == CHOOSE x \in MagicsOf(comp) : StartsWith(data, x)
              IN {Ok(Unscramble(SubSeq(data, Len(mg) + 1, Len(data))))}
         ELSE {Raise("CodecError")}

IsHdrS_any(bs) == TRUE

\* == b'HdrS' (file.py 158, 203)
IsHdrS(bs) == bs = HdrS

(***************************************************************************)
(* Image files                                                             *)
(***************************************************************************)
Zeros(n) == [i \in 1..n |-> 0]

\* "5.4" and "6.1"
BannerVersion == <<53, 46, 52>>

HeaderVersion == <<54, 46, 49>>

\* " (gcc) "
Trailer == <<32, 40, 103, 99, 99, 41, 32>>

Bodies ==
    [banner |-> ver_start \o BannerVersion \o Trailer,
     cut |-> ver_start \o BannerVersion,
     plain |-> BannerVersion \o Trailer,
     empty |-> <<>>]

Compress(codec, content) ==
    IF codec = 0 THEN content
    ELSE magic_dict[codec].magic \o Scramble(content)

\* the boot sector and setup header of a bzImage: 'HdrS' at 0x202, the
\* offset of the version string at 0x20e, the string at 0x200 + offset
BzPayload ==
    [i \in 1..608 |->
        IF i - 1 \in 514..517 THEN HdrS[i - 514]
        ELSE IF i - 1 = 526 THEN 64
        ELSE IF i - 1 \in 576..(575 + Len(HeaderVersion \o Trailer))
             THEN (HeaderVersion \o Trailer)[i - 576]
        ELSE 0]

\* a PE/COFF image: 'MZ', e_lfanew at 0x3c, the COFF header at header_pos + 4,
\* the section table behind the optional header, the '.linux' payload
PELayout == [header_pos |-> 64, payload |-> 512]

PEHeaderPos == PELayout.header_pos

PEPayloadPos == PELayout.payload

SectionName(isLinux) ==
    IF isLinux THEN DotLinux \o <<0, 0>> ELSE <<46, 116, 101, 120, 116, 0, 0, 0>>

PEFile(nsec, soh, linuxAt, payload) ==
    LET table == PEHeaderPos + 24 + soh
        size == PEPayloadPos + Max(Len(payload), 608)
        byte(o) ==
          IF o < 2 THEN MZ[o + 1]
          ELSE IF o = 60 THEN PEHeaderPos
          ELSE IF o = PEHeaderPos THEN 80
          ELSE IF o = PEHeaderPos + 1 THEN 69
          ELSE IF o = PEHeaderPos + 6 THEN nsec
          ELSE IF o = PEHeaderPos + 20 THEN soh
          ELSE IF o >= table /\ o < table + 40 * nsec
               THEN LET j == ((o - table) \div 40) + 1
                        r == (o - table) % 40
                    IN IF r < 8 THEN SectionName(j = linuxAt)[r + 1]
                       ELSE IF r = 21 /\ j = linuxAt
                            THEN PEPayloadPos \div 256
                       ELSE IF r = 21 THEN 1
                       ELSE 0
          ELSE IF o >= PEPayloadPos /\ o < PEPayloadPos + Len(payload)
               THEN payload[o - PEPayloadPos + 1]
          ELSE 0
    IN [i \in 1..size |-> byte(i - 1)]

AvailChoices == {Comps, Comps \ {"lzo"}, Comps \ {"gzip"}}

RawImages ==
    {[kind |-> "raw", codec |-> c, pad |-> n, body |-> bd, avail |-> av,
      nsec |-> 0, soh |-> 0, linuxAt |-> 0] :
        c \in 0..Len(magic_dict), n \in 0..MaxPad, bd \in DOMAIN Bodies,
        av \in AvailChoices}

PEImages ==
    {[kind |-> "pe", codec |-> c, pad |-> 0, body |-> bd, avail |-> av,
      nsec |-> ns, soh |-> so, linuxAt |-> la] :
        c \in {0, 1, 3, 7}, bd \in {"hdrs", "banner", "plain"},
        ns \in 0..MaxSections, so \in {0, 8}, la \in 0..MaxSections,
        av \in AvailChoices}

\* what the image holds once unwrapped and decompressed
PlainContent(im) ==
    IF im.body = "hdrs" THEN BzPayload
    ELSE Zeros(im.pad) \o Bodies[im.body]

FileOf(im) ==
    IF im.kind = "raw" THEN Compress(im.codec, PlainContent(im))
    ELSE PEFile(im.nsec, im.soh, im.linuxAt,
                IF im.body = "hdrs" THEN BzPayload
                ELSE Compress(im.codec, PlainContent(im)))

ScanIdle ==
    /\ exclusions = {} /\ boot_directory = "/boot"
    /\ module_directory = "/lib/modules"
    /\ fs = [files |-> {}, ver |-> <<>>, dirs |-> <<>>, build |-> {}]
    /\ pc = "idle" /\ gi = 0 /\ todo = {} /\ m = <<>> /\ prev_paths = {}
    /\ kernels = <<>> /\ fi = 0 /\ err = NoError

ParseInit ==
    /\ img \in {im \in RawImages \cup PEImages :
                   /\ im.linuxAt <= im.nsec
                   /\ im.body = "hdrs" => im.codec = 0}
    /\ file = FileOf(img)
    /\ fpos = 0
    /\ ppc = "open"
    /\ NumberOfSections = 0
    /\ SizeOfOptionalHeader = 0
    /\ PointerToRawData = 0
    /\ si = 0
    /\ header = <<>>
    /\ mi = 0
    /\ b = <<>>
    /\ result = NoError

ImageInit == ScanIdle /\ ParseInit

(***************************************************************************)
(* read_internal_version, ver_from_BzImage and ver_from_raw, step by step  *)
(***************************************************************************)
Finish(r) ==
    /\ result' = r
    /\ ppc' = "done"

\* f = open(self.path, 'rb'); if f.read(2) == b'MZ'   (file.py 171-172, 209-211)
OpenImage ==
    /\ ppc = "open"
    /\ fpos' = Len(Read(0, 2))
    /\ ppc' = IF Read(0, 2) = MZ THEN "pe" ELSE "raw"
    /\ UNCHANGED <<img, file, NumberOfSections, SizeOfOptionalHeader,
                   PointerToRawData, si, header, mi, b, result>>
    /\ UNCHANGED scanVars

\* the DOS and COFF headers, up to the section table (file.py 173-190)
ReadPEHeader ==
    /\ ppc = "pe"
    /\ LET hp == Read(60, 1)
           base == hp[1] + 4
           ns == Read(base + 2, 2)
           so == Read(base + 16, 2)
       IN IF Len(hp) # 1 \/ Len(ns) # 2 \/ Len(so) # 2
          THEN /\ Finish(Raise("struct.error"))
               /\ UNCHANGED <<fpos, NumberOfSections, SizeOfOptionalHeader,
                              PointerToRawData, si>>
          ELSE /\ NumberOfSections' = LE16(ns)
               /\ SizeOfOptionalHeader' = LE16(so)
               /\ fpos' = base + 20 + LE16(so)
               /\ PointerToRawData' = 0
               /\ si' = 1
               /\ ppc' = IF 1 < LE16(ns) THEN "sect" ELSE "dispatch"
               /\ UNCHANGED result
    /\ UNCHANGED <<img, file, header, mi, b>>
    /\ UNCHANGED scanVars

\* one iteration of 'for i in range(1, NumberOfSections)' (file.py 191-200)
ScanSection ==
    /\ ppc = "sect"
    /\ LET Name == Read(fpos, 8)
           after == fpos + Len(Name)
       IN IF ~ Decodable(Name)
          THEN /\ Finish(Raise("UnicodeDecodeError"))
               /\ UNCHANGED <<fpos, PointerToRawData, si>>
          ELSE IF Contains(Name, DotLinux)
          THEN LET ptr == Read(after - 8 + 20, 4)
               IN IF Len(ptr) # 4
                  THEN /\ Finish(Raise("struct.error"))
                       /\ UNCHANGED <<fpos, PointerToRawData, si>>
                  ELSE /\ PointerToRawData' = LE32(ptr)
                       /\ fpos' = after - 8 + 20
                       /\ ppc' = "dispatch"
                       /\ UNCHANGED <<si, result>>
          ELSE /\ fpos' = after - 8 + 40
               /\ si' = si + 1
               /\ ppc' = IF si + 1 < NumberOfSections THEN "sect"
                         ELSE "dispatch"
               /\ UNCHANGED <<PointerToRawData, result>>
    /\ UNCHANGED <<img, file, NumberOfSections, SizeOfOptionalHeader,
                   header, mi, b>>
    /\ UNCHANGED scanVars

\* seek to the payload and look for 'HdrS' at 0x202 (file.py 201-208)
Dispatch ==
    /\ ppc = "dispatch"
    /\ LET magic == Read(PointerToRawData + 514, 4)
           start == PointerToRawData + 514 + Len(magic) - 518
       IN IF start < 0
          THEN /\ Finish(Raise("OSError"))
               /\ UNCHANGED fpos
          ELSE /\ fpos' = start
               /\ ppc' = IF IsHdrS(magic) THEN "bz" ELSE "raw"
               /\ UNCHANGED result
    /\ UNCHANGED <<img, file, NumberOfSections, SizeOfOptionalHeader,
                   PointerToRawData, si, header, mi, b>>
    /\ UNCHANGED scanVars

\* ver_from_BzImage (file.py 150-167)
VerFromBzImage ==
    /\ ppc = "bz"
    /\ LET buf == Read(fpos + 512, 16)
           after == fpos + 512 + Len(buf)
       IN IF Len(buf) # 16
          THEN Finish(Raise("UnrecognizedKernelError")) /\ UNCHANGED fpos
          ELSE IF IsHdrS(SubSeq(buf, 3, 6))
          THEN LET offset == LE16(SubSeq(buf, 15, 16))
                   at == after + offset - 16
                   vbuf == Read(at, 256)
               IN /\ fpos' = at + Len(vbuf)
                  /\ IF vbuf = <<>>
                     THEN Finish(Raise("UnrecognizedKernelError"))
                     ELSE Finish(ReturnOrDecodeError(SplitSpace(vbuf).head))
          ELSE /\ fpos' = after
               /\ Finish([type |-> "None", value |-> <<>>])
    /\ UNCHANGED <<img, file, NumberOfSections, SizeOfOptionalHeader,
                   PointerToRawData, si, header, mi, b>>
    /\ UNCHANGED scanVars

\* pre = f.tell(); header = f.read(maxlen); f.seek(pre)   (file.py 112-115)
PeekHeader ==
    /\ ppc = "raw"
    /\ header' = Read(fpos, maxlen)
    /\ mi' = 1
    /\ ppc' = "magic"
    /\ UNCHANGED <<img, file, fpos, NumberOfSections, SizeOfOptionalHeader,
                   PointerToRawData, si, b, result>>
    /\ UNCHANGED scanVars

\* one iteration of 'for magic, comp in magic_dict.items()' (file.py 116-133):
\* both branches read the rest of the file and assign b
TryMagic ==
    /\ ppc = "magic" /\ mi <= Len(magic_dict)
    /\ LET data == ReadAll(fpos)
           comp == magic_dict[mi].comp
       IN IF StartsWith(header, magic_dict[mi].magic)
          THEN IF comp \notin img.avail
               THEN /\ Finish(Raise("MissingDecompressorError"))
                    /\ UNCHANGED <<fpos, mi, b>>
               ELSE \E r \in Decompress(comp, data) :
                       IF r.type = "ok"
                       THEN /\ b' = r.value
                            /\ fpos' = Max(fpos, Len(file))
                            /\ mi' = mi + 1
                            /\ UNCHANGED <<ppc, result>>
                       ELSE /\ Finish(r)
                            /\ fpos' = Max(fpos, Len(file))
                            /\ UNCHANGED <<mi, b>>
          ELSE /\ b' = data
               /\ fpos' = Max(fpos, Len(file))
               /\ mi' = mi + 1
               /\ UNCHANGED <<ppc, result>>
    /\ UNCHANGED <<img, file, NumberOfSections, SizeOfOptionalHeader,
                   PointerToRawData, si, header>>
    /\ UNCHANGED scanVars

\* the search for the boot banner in b (file.py 134-148)
FindVersion ==
    /\ ppc = "magic" /\ mi > Len(magic_dict)
    /\ LET pos == Find(b, ver_start) IN
       IF pos = -1
       THEN Finish(Raise("UnrecognizedKernelError"))
       ELSE LET from == pos + Len(ver_start)
                sbuf == SubSeq(b, from + 1, Min(from + 256, Len(b)))
                ret == SplitSpace(sbuf)
            IN IF ~ ret.found
               THEN Finish(Raise("UnrecognizedKernelError"))
               ELSE Finish(ReturnOrDecodeError(ret.head))
    /\ UNCHANGED <<img, file, fpos, NumberOfSections, SizeOfOptionalHeader,
                   PointerToRawData, si, header, mi, b>>
    /\ UNCHANGED scanVars

ImageNext ==
    \/ OpenImage
    \/ ReadPEHeader
    \/ ScanSection
    \/ Dispatch
    \/ VerFromBzImage
    \/ PeekHeader
    \/ TryMagic
    \/ FindVersion

ImageSpec == ImageInit /\ [][ImageNext]_vars

(***************************************************************************)
(* Properties of find_kernels                                              *)
(***************************************************************************)
Slot(ks, kv, role) == Get(ks, kv)[role]

ModulesGlob == globs[Len(globs)].g

\* a step that ends one iteration of the inner loop on the candidate m'
LoopStep == pc = "glob" /\ gi > 0 /\ todo' # todo /\ todo' = todo \ {m'}

\* ... and the candidate went past the samefile test and the image parser
MatchedStep == LoopStep /\ m' \notin prev_paths /\ m' \in prev_paths'

NoSlotReplaced ==
    /\ Len(kernels') >= Len(kernels)
    /\ \A i \in 1..Len(kernels) :
          /\ kernels'[i].version = kernels[i].version
          /\ \A r \in Roles :
                kernels[i][r] # None => kernels'[i][r] = kernels[i][r]

\* C2: a matched file whose (version key, role) slot is already occupied
\* aborts the scan with a collision error naming the role, the new path and
\* the path in the slot; and no step ever replaces the file held by a slot.
C2_CollisionAborts ==
    [][ /\ NoSlotReplaced
        /\ MatchedStep =>
             LET kv == VersionKey(cat, globs[gi].g, m') IN
             (Has(kernels, kv) /\ Slot(kernels, kv, cat) # None) =>
                /\ pc' = "error"
                /\ err' = [type |-> "SystemError", cat |-> cat, new |-> m',
                           old |-> Slot(kernels, kv, cat).path]
                /\ kernels' = kernels ]_vars

\* C2 witness: the scan has aborted on initramfs-A.img against initrd-A (or
\* the other way round), both mapping to the initramfs slot of key A.
C2_Witness ==
    /\ pc = "error"
    /\ err.type = "SystemError"
    /\ err.cat = INITRAMFS
    /\ {err.new, err.old} = { <<"/boot", "/initramfs-", "A", ".img">>,
                              <<"/boot", "/initrd-", "A">> }

\* the scenario of C3 for version V: the boot directory holds exactly one
\* image, System.map and config with suffix V, the image reports V, the module
\* directory holds exactly V, with a build directory, and nothing is excluded
C3_Scenario(V) ==
    /\ exclusions = {}
    /\ \E p \in DOMAIN fs.ver :
          /\ \E i \in 1..4 : p = globs[i].g \o V
          /\ fs.ver[p] = V
          /\ fs.files = {p, <<boot_directory, "/System.map-">> \o V,
                            <<boot_directory, "/config-">> \o V}
    /\ DOMAIN fs.dirs = {ModulesGlob \o V}
    /\ fs.dirs[ModulesGlob \o V] \in fs.build

\* C3: in that scenario the scan never fails and returns exactly one
\* aggregate, of version V, with the vmlinuz, systemmap, config, modules and
\* build slots filled by the files of the scenario.
C3_OneKernelAllSlots ==
    \A V \in {VA} :
       C3_Scenario(V) =>
          /\ pc # "error"
          /\ pc = "done" =>
               /\ Len(kernels) = 1
               /\ kernels[1].version = V
               /\ kernels[1].vmlinuz # None
               /\ kernels[1].vmlinuz.path \in DOMAIN fs.ver
               /\ kernels[1].systemmap =
                     GenericFile(<<boot_directory, "/System.map-">> \o V,
                                 SYSTEM_MAP)
               /\ kernels[1].config =
                     GenericFile(<<boot_directory, "/config-">> \o V, CONFIG)
               /\ kernels[1].modules =
                     GenericFile(ModulesGlob \o V, MODULES)
               /\ kernels[1].build =
                     GenericFile(BuildDirOf(ModulesGlob \o V), BUILD)
               /\ kernels[1].initramfs = None

\* C3 witness: the scan of the scenario has returned, and the module
\* directory was recorded from the image's internal version before the glob
\* pass met it.
C3_Witness ==
    /\ pc = "done"
    /\ C3_Scenario(VA)
    /\ ModuleDirOf(VA) = ModulesGlob \o VA
    /\ Len(kernels) = 1

\* the file a role's own glob matches for version key kv
OwnFile(role, kv) ==
    IF role = SYSTEM_MAP
    THEN GenericFile(<<boot_directory, "/System.map-">> \o kv, SYSTEM_MAP)
    ELSE GenericFile(<<boot_directory, "/config-">> \o kv, CONFIG)

\* C4 as stated: on return, whenever K has a systemmap (config) and K.old
\* exists, K.old has one too, its own or K's -- for every pair, chains
\* included.
C4_OldInheritsAlways ==
    pc = "done" =>
       \A i \in 1..Len(kernels) : \A r \in {SYSTEM_MAP, CONFIG} :
          LET k == kernels[i] IN
          (Has(kernels, OldKey(k.version)) /\ k[r] # None) =>
             Slot(kernels, OldKey(k.version), r) \in
                {k[r], OwnFile(r, OldKey(k.version))}

\* C4 amended: on return, whenever K has a systemmap (config) file of its
\* own, matched under K's key, and K.old exists, K.old has one too: its own
\* or K's.
C4_OldInheritsOwn ==
    pc = "done" =>
       \A i \in 1..Len(kernels) : \A r \in {SYSTEM_MAP, CONFIG} :
          LET k == kernels[i] IN
          (Has(kernels, OldKey(k.version)) /\ k[r] = OwnFile(r, k.version)) =>
             Slot(kernels, OldKey(k.version), r) \in
                {k[r], OwnFile(r, OldKey(k.version))}

\* C4 witness: the scan has returned, A holds its own System.map and config,
\* and A.old, created before A, holds references to both.
C4_Witness ==
    /\ pc = "done"
    /\ Has(kernels, VA) /\ Has(kernels, OldKey(VA))
    /\ Index(kernels, OldKey(VA)) < Index(kernels, VA)
    /\ \A r \in {SYSTEM_MAP, CONFIG} :
          /\ Slot(kernels, VA, r) = OwnFile(r, VA)
          /\ Slot(kernels, OldKey(VA), r) = OwnFile(r, VA)

\* C5: in the module-directory pass a candidate with the device+inode of a
\* path matched before is skipped, leaving the aggregates and the matched
\* paths as they were; a candidate that is accepted shares its inode with no
\* path matched before; so, when only the glob pass finds module directories,
\* no two spellings of one directory are both matched.
C5_SameFileSkipped ==
    [][ /\ (LoopStep /\ cat = MODULES) =>
             IF \E x \in prev_paths : Inode(x) = Inode(m')
             THEN kernels' = kernels /\ prev_paths' = prev_paths
                  /\ pc' = "glob"
             ELSE m' \in prev_paths'
        /\ (DOMAIN fs.ver = {} \/ KERNEL \in exclusions) =>
             \A p, q \in Glob(ModulesGlob) \cap prev_paths' :
                Inode(p) = Inode(q) => p = q ]_vars

\* C5 witness: the scan has returned; A and A.old spell one module directory,
\* one of the two was matched and the other skipped, and there is one
\* aggregate, holding the one Modules entry.
C5_Witness ==
    /\ pc = "done"
    /\ fs.files = {}
    /\ DOMAIN fs.dirs = {ModulesGlob \o VA, ModulesGlob \o OldKey(VA)}
    /\ Inode(ModulesGlob \o VA) = Inode(ModulesGlob \o OldKey(VA))
    /\ Cardinality(prev_paths) = 1
    /\ Len(kernels) = 1
    /\ kernels[1].modules # None
    /\ kernels[1].modules.path \in prev_paths

\* C8 as stated: when a module directory with key V is matched and V.old
\* exists, a modules or build slot already occupied in V.old is left as it
\* is and no error is raised.
C8_PropagationFillsEmptyOnly ==
    [][ (MatchedStep /\ cat = MODULES) =>
          LET old == OldKey(VersionKey(cat, globs[gi].g, m')) IN
          Has(kernels, old) =>
             \A r \in {MODULES, BUILD} :
                Slot(kernels, old, r) # None =>
                   /\ pc' # "error"
                   /\ Slot(kernels', old, r) = Slot(kernels, old, r) ]_vars

\* C9 as stated: on return, no aggregate has a slot filled whose role name
\* is in exclusions.
C9_ExcludedRolesEmpty ==
    pc = "done" =>
       \A i \in 1..Len(kernels) : \A r \in exclusions :
          kernels[i][r] = None

\* C10 as stated: every file held by an aggregate lies under boot_directory
\* or under module_directory.
C10_PathsUnderArguments ==
    \A i \in 1..Len(kernels) : \A r \in Roles :
       kernels[i][r] # None =>
          kernels[i][r].path[1] \in {boot_directory, module_directory}

(***************************************************************************)
(* Properties of read_internal_version                                     *)
(***************************************************************************)
\* the version the boot banner of a content announces: the text between the
\* marker and the next space, when that space lies within 256 bytes
BannerOf(content) ==
    LET pos == Find(content, ver_start)
        from == pos + Len(ver_start)
    IN SplitSpace(SubSeq(content, from + 1, Min(from + 256, Len(content))))

\* C1 as stated: an image that does not start with 'MZ', uncompressed or a
\* valid stream of an available codec, whose content holds the marker, a
\* version V and a space within 256 bytes, yields exactly V.
C1_BannerVersionReturned ==
    ( /\ ppc = "done"
      /\ Read(0, 2) # MZ
      /\ img.codec = 0 \/ magic_dict[img.codec].comp \in img.avail
      /\ Contains(PlainContent(img), ver_start)
      /\ BannerOf(PlainContent(img)).found )
    => result = Ok(BannerOf(PlainContent(img)).head)

\* C6 as stated: an image whose content holds no marker fails with
\* UnrecognizedKernelError, 'MZ' images with an 'HdrS' payload included.
C6_NoBannerUnrecognized ==
    (ppc = "done" /\ ~ Contains(PlainContent(img), ver_start))
    => result.type = "UnrecognizedKernelError"

ErrorTypes ==
    {"UnrecognizedKernelError", "MissingDecompressorError", "CodecError",
     "struct.error", "OSError", "UnicodeDecodeError"}

\* C6 amended: an image whose content holds no marker, and that is not an
\* 'MZ' image with 'HdrS' at offset 0x202 of its payload, never yields a
\* version: reading it fails, with UnrecognizedKernelError whenever the bytes
\* ver_from_raw starts at begin with no compression magic.
C6_NoBannerNoVersion ==
    ( /\ ppc = "done"
      /\ ~ Contains(PlainContent(img), ver_start)
      /\ ~ (Read(0, 2) = MZ /\ Read(PointerToRawData + 514, 4) = HdrS) )
    => /\ result.type \in ErrorTypes
       /\ ( /\ mi > 0
            /\ \A i \in 1..Len(magic_dict) :
                  ~ StartsWith(header, magic_dict[i].magic) )
          => result.type = "UnrecognizedKernelError"

\* C6 witness: an 'MZ' image whose '.linux' section was found, with neither
\* 'HdrS' nor a banner in the uncompressed payload, has been rejected.
C6_Witness ==
    /\ ppc = "done"
    /\ img.kind = "pe" /\ img.body = "plain" /\ img.codec = 0
    /\ PointerToRawData = PEPayloadPos
    /\ result.type = "UnrecognizedKernelError"

\* the raw-data pointer of the first of the n section-table entries whose
\* name contains '.linux', 0 when there is none
FirstLinuxPointer(n) ==
    LET table == Read(60, 1)[1] + 24 + SizeOfOptionalHeader
        hits == {j \in 1..n :
                    Contains(Read(table + 40 * (j - 1), 8), DotLinux)}
    IN IF hits = {} THEN 0
       ELSE LET j == CHOOSE x \in hits : \A y \in hits : x <= y
            IN LE32(Read(table + 40 * (j - 1) + 20, 4))

\* C7 as stated: once the section table is scanned, the payload offset is
\* the raw-data pointer of the first '.linux' entry among all
\* NumberOfSections entries, and 0 only when none of them matches.
C7_AllSectionsExamined ==
    ppc = "dispatch" => PointerToRawData = FirstLinuxPointer(NumberOfSections)

====
